---- MODULE Spec2Model ----
(***************************************************************************)
(* The journal Store (src/src/main/database.js) and the Request Gateway    *)
(* (the ipcMain handlers of the main process) of the journaling app.       *)
(*                                                                         *)
(* JavaScript values are tagged records [k |-> <typeof-like tag>, ...].    *)
(* A JavaScript string is a sequence of one-character strings, so that     *)
(* JSON.stringify and JSON.parse can be modelled character by character.   *)
(***************************************************************************)
EXTENDS Integers, Sequences, FiniteSets, TLC

\* The clock CURRENT_TIMESTAMP / datetime('now') reads goes from 0 to MaxTime.
MaxTime == 1

---------------------------------------------------------------------------
(* JavaScript values *)

Undefined == [k |-> "undefined"]
Null == [k |-> "null"]
Str(s) == [k |-> "string", v |-> s]
Arr(a) == [k |-> "array", v |-> a]
\* An object literal: its own properties in insertion order.
Obj(ps) == [k |-> "object", v |-> ps]
Prop(key, val) == [key |-> key, val |-> val]

\* `!x`: undefined, null and the empty string are falsy.
Falsy(x) == \/ x.k \in {"undefined", "null"}
            \/ x.k = "string" /\ x.v = <<>>

\* typeof x === 'object' (null excluded by the truthiness test beside it)
IsObject(x) == x.k \in {"object", "array"}

IsString(x) == x.k = "string"

---------------------------------------------------------------------------
(* JSON.stringify / JSON.parse on the values above.  The alphabet has no   *)
(* digits, whitespace or the literals true/false/null.                     *)

QUOTE == "\""
BACKSLASH == "\\"

RECURSIVE Escape(_)
Escape(s) ==
  IF s = <<>> THEN <<>>
  ELSE IF Head(s) \in {QUOTE, BACKSLASH}
       THEN <<BACKSLASH, Head(s)>> \o Escape(Tail(s))
       ELSE <<Head(s)>> \o Escape(Tail(s))

Quote(s) == <<QUOTE>> \o Escape(s) \o <<QUOTE>>

RECURSIVE JSON_stringify(_)
RECURSIVE StringifyElems(_)
RECURSIVE StringifyProps(_)

StringifyElems(a) ==
  IF a = <<>> THEN <<>>
  ELSE JSON_stringify(Head(a))
       \o (IF Tail(a) = <<>> THEN <<>> ELSE <<",">> \o StringifyElems(Tail(a)))

StringifyProps(ps) ==
  IF ps = <<>> THEN <<>>
  ELSE Quote(Head(ps).key) \o <<":">> \o JSON_stringify(Head(ps).val)
       \o (IF Tail(ps) = <<>> THEN <<>> ELSE <<",">> \o StringifyProps(Tail(ps)))

JSON_stringify(x) ==
  CASE x.k = "string" -> Quote(x.v)
    [] x.k = "array"  -> <<"[">> \o StringifyElems(x.v) \o <<"]">>
    [] x.k = "object" -> <<"{">> \o StringifyProps(x.v) \o <<"}">>

\* A parse step yields [ok, val, rest]; ok = FALSE is a SyntaxError.
ParseFail == [ok |-> FALSE, val |-> Undefined, rest |-> <<>>]
ParseOk(val, rest) == [ok |-> TRUE, val |-> val, rest |-> rest]

\* The characters of a string literal after its opening quote.
RECURSIVE ParseChars(_, _)
ParseChars(t, acc) ==
  IF t = <<>> THEN ParseFail
  ELSE IF Head(t) = QUOTE THEN ParseOk(Str(acc), Tail(t))
  ELSE IF Head(t) = BACKSLASH
       THEN IF Len(t) >= 2 /\ t[2] \in {QUOTE, BACKSLASH}
            THEN ParseChars(Tail(Tail(t)), Append(acc, t[2]))
            ELSE ParseFail
  ELSE ParseChars(Tail(t), Append(acc, Head(t)))

RECURSIVE ParseValue(_)
RECURSIVE ParseElems(_, _)
RECURSIVE ParseProps(_, _)

\* After '[' value: either ']' or ',' value ...
ParseElems(t, acc) ==
  LET e == ParseValue(t) IN
  IF ~e.ok THEN ParseFail
  ELSE IF e.rest = <<>> THEN ParseFail
  ELSE IF Head(e.rest) = "]" THEN ParseOk(Arr(Append(acc, e.val)), Tail(e.rest))
  ELSE IF Head(e.rest) = "," THEN ParseElems(Tail(e.rest), Append(acc, e.val))
  ELSE ParseFail

\* A later duplicate key replaces the earlier property's value.
SetProp(ps, key, val) ==
  IF \E i \in 1..Len(ps) : ps[i].key = key
  THEN [i \in 1..Len(ps) |-> IF ps[i].key = key THEN Prop(key, val) ELSE ps[i]]
  ELSE Append(ps, Prop(key, val))

ParseProps(t, acc) ==
  IF t = <<>> \/ Head(t) # QUOTE THEN ParseFail
  ELSE LET key == ParseChars(Tail(t), <<>>) IN
       IF ~key.ok \/ key.rest = <<>> \/ Head(key.rest) # ":" THEN ParseFail
       ELSE LET e == ParseValue(Tail(key.rest)) IN
            IF ~e.ok \/ e.rest = <<>> THEN ParseFail
            ELSE IF Head(e.rest) = "}"
                 THEN ParseOk(Obj(SetProp(acc, key.val.v, e.val)), Tail(e.rest))
            ELSE IF Head(e.rest) = ","
                 THEN ParseProps(Tail(e.rest), SetProp(acc, key.val.v, e.val))
            ELSE ParseFail

ParseValue(t) ==
  IF t = <<>> THEN ParseFail
  ELSE IF Head(t) = QUOTE THEN ParseChars(Tail(t), <<>>)
  ELSE IF Head(t) = "["
       THEN IF Len(t) >= 2 /\ t[2] = "]" THEN ParseOk(Arr(<<>>), Tail(Tail(t)))
            ELSE ParseElems(Tail(t), <<>>)
  ELSE IF Head(t) = "{"
       THEN IF Len(t) >= 2 /\ t[2] = "}" THEN ParseOk(Obj(<<>>), Tail(Tail(t)))
            ELSE ParseProps(Tail(t), <<>>)
  ELSE ParseFail

\* JSON.parse(text): the whole text must be one value.
JSON_parse(text) ==
  LET r == ParseValue(text) IN
  IF r.ok /\ r.rest = <<>> THEN ParseOk(r.val, <<>>) ELSE ParseFail

---------------------------------------------------------------------------
(* Inputs *)

\* Journal ids a caller may name.
Ids == {Str(<<"x">>), Str(<<"y">>)}

\* A journal-shaped record {id?, title?, content?}; an absent property reads
\* as undefined.
Journal(id, title, content) ==
  [k |-> "journal", id |-> id, title |-> title, content |-> content]

\* Content structures {bullets, images, videos}.
ContentOf(b, i, v) ==
  Obj(<<Prop(<<"b","u","l","l","e","t","s">>, Arr(b)),
        Prop(<<"i","m","a","g","e","s">>, Arr(i)),
        Prop(<<"v","i","d","e","o","s">>, Arr(v))>>)

\* A structure whose texts hold the characters stringify has to escape.
Structures ==
  { ContentOf(<<Str(<<"a", QUOTE>>), Str(<<>>)>>, <<Str(<<"p">>)>>, <<Str(<<BACKSLASH>>)>>) }

\* Content texts that are not JSON: the empty text and a bare word.
BadTexts == { Str(<<>>), Str(<<"a">>) }

\* Titles: missing (null), empty, non-empty.
Titles == {Null, Str(<<>>), Str(<<"t">>)}

\* Records handed straight to the Store: content already serialized, or
\* null, or the property absent.
StoreRecords ==
  { Journal(id, title, content) :
      id \in Ids, title \in Titles,
      content \in {Undefined, Null} \cup { Str(JSON_stringify(c)) : c \in Structures } }

\* Content handed to the Gateway: a structure, a text, or the property absent.
GatewayContents == {Undefined} \cup BadTexts \cup Structures

\* create-journal requests: the record may be missing; an id the caller
\* supplies is overridden.
CreateRequests ==
  {Undefined} \cup
  { Journal(id, title, content) :
      id \in {Undefined, Str(<<"x">>)}, title \in Titles \cup {Undefined},
      content \in GatewayContents }

\* update-journal and auto-save-journal requests: the record or its id may
\* be missing.
WriteRequests ==
  {Undefined, Journal(Undefined, Str(<<"t">>), Str(<<"a">>))} \cup
  { Journal(id, title, content) :
      id \in Ids, title \in Titles, content \in GatewayContents }

---------------------------------------------------------------------------
(* State *)

VARIABLES
  db,           \* the module-level connection handle: "null" or "open"
  userDataDir,  \* the user data directory exists
  dbFile,       \* journals.db exists
  journalsTable,\* the journals table has been created in the file
  journals,     \* the rows of the journals table
  now,          \* the clock CURRENT_TIMESTAMP reads
  dbInitialized,\* some call of initialize() has returned true
  last,         \* the most recent call: [op, id, wrote, out]
  frames        \* per request in flight, how far its handler has come

vars == <<db, userDataDir, dbFile, journalsTable, journals, now, dbInitialized, last,
          frames>>

\* What a call does: it throws an error or returns a value.
Throw(e) == [kind |-> "throw", error |-> e, value |-> Undefined]
Return(v) == [kind |-> "return", error |-> "none", value |-> v]

\* better-sqlite3's result of Statement.run (lastInsertRowid, SQLite's
\* internal integer row number, is no column of the table and is left out).
RunInfo(n) == [k |-> "info", changes |-> n]

\* The record of a call: the operation, the journal id it named (or minted),
\* the content it was given when it wrote a row, and how it ended.
Call(op, id, wrote, out) == [op |-> op, id |-> id, wrote |-> wrote, out |-> out]

\* The content a writing call was given, when it wrote a row.
Wrote(journal, out) ==
  IF out.kind = "return" /\ out.value = RunInfo(1) THEN journal.content ELSE Undefined

---------------------------------------------------------------------------
(* The Store: journalOperations *)

\* The steps of initializeDatabase at which the environment can make it
\* throw; "ok" is a run in which none does.
InitOutcomes == {"ok", "mkdir", "chmod", "open", "exec", "probe"}

\* initializeDatabase with the environment failing at step env: the state it
\* leaves and the value it returns.
initializeDatabase(env) ==
  LET opened  == env \in {"exec", "probe", "ok"}
      created == env \in {"probe", "ok"}
  IN [ userDataDir   |-> userDataDir \/ env # "mkdir",
       db            |-> IF opened THEN "open" ELSE db,
       dbFile        |-> dbFile \/ opened,
       journalsTable |-> journalsTable \/ created,
       ret           |-> (env = "ok") ]

\* mkdirSync runs only when the directory is missing, chmodSync only when the
\* file exists (and is not accessible).
CanFailAt(env) ==
  /\ env = "mkdir" => ~userDataDir
  /\ env = "chmod" => dbFile

\* initialize without its `if (!db)` test: every call opens the database.
initialize_Reopens(env) == initializeDatabase(env)

initialize(env) ==
  IF db = "null"
  THEN initializeDatabase(env)
  ELSE [ userDataDir |-> userDataDir, db |-> db, dbFile |-> dbFile,
         journalsTable |-> journalsTable, ret |-> TRUE ]

Row(id, title, content, created, updated) ==
  [ k |-> "row", id |-> id, title |-> title, content |-> content,
    created_at |-> created, updated_at |-> updated, is_published |-> 0 ]

HasRow(id) == \E r \in journals : r.id = id
RowOf(id) == CHOOSE r \in journals : r.id = id

\* What a Store operation does: the table it leaves and how the call ends.
Res(rows, out) == [journals |-> rows, out |-> out]

\* better-sqlite3 binds strings and null (numbers and buffers are not among
\* the inputs); an absent or undefined named parameter makes run() throw.
Bindable(x) == x.k \in {"string", "null"}

BindsAll(journal) ==
  Bindable(journal.id) /\ Bindable(journal.title) /\ Bindable(journal.content)

\* The guard every operation starts with, then db.prepare, which throws when
\* the statement names a table that does not exist.
Guarded(body) ==
  IF db = "null" THEN Res(journals, Throw("NotInitialized"))
  ELSE IF ~journalsTable THEN Res(journals, Throw("SqliteError"))
  ELSE body

\* createJournal with the content column left out of the INSERT.
createJournal_DropsContent(journal) ==
  Guarded(
    IF ~BindsAll(journal) THEN Res(journals, Throw("BindError"))
    ELSE IF journal.title = Null \/ HasRow(journal.id)
         THEN Res(journals, Throw("ConstraintViolation"))
    ELSE Res(journals \cup {Row(journal.id, journal.title, Null, now, now)},
             Return(RunInfo(1))))

\* createJournal as INSERT OR REPLACE: a row with the same id gives way.
createJournal_Replaces(journal) ==
  Guarded(
    IF ~BindsAll(journal) THEN Res(journals, Throw("BindError"))
    ELSE IF journal.title = Null THEN Res(journals, Throw("ConstraintViolation"))
    ELSE Res({ r \in journals : r.id # journal.id }
               \cup {Row(journal.id, journal.title, journal.content, now, now)},
             Return(RunInfo(1))))

\* INSERT INTO journals (id, title, content): created_at, updated_at and
\* is_published take their defaults.
createJournal(journal) ==
  Guarded(
    IF ~BindsAll(journal) THEN Res(journals, Throw("BindError"))
    ELSE IF journal.title = Null \/ HasRow(journal.id)
         THEN Res(journals, Throw("ConstraintViolation"))
    ELSE Res(journals \cup {Row(journal.id, journal.title, journal.content, now, now)},
             Return(RunInfo(1))))

\* The orders ORDER BY updated_at ASC would give.
SortedByUpdatedAsc(rows) ==
  LET n == Cardinality(rows) IN
  { s \in [1..n -> rows] :
      /\ \A i, j \in 1..n : i # j => s[i] # s[j]
      /\ \A i, j \in 1..n : i < j => s[i].updated_at <= s[j].updated_at }

\* The orders ORDER BY updated_at DESC may give: rows with equal updated_at
\* come in any order.
SortedByUpdatedDesc(rows) ==
  LET n == Cardinality(rows) IN
  { s \in [1..n -> rows] :
      /\ \A i, j \in 1..n : i # j => s[i] # s[j]
      /\ \A i, j \in 1..n : i < j => s[i].updated_at >= s[j].updated_at }

\* The set of ways getAllJournals can end.
getAllJournals ==
  IF db = "null" THEN {Res(journals, Throw("NotInitialized"))}
  ELSE IF ~journalsTable THEN {Res(journals, Throw("SqliteError"))}
  ELSE { Res(journals, Return(s)) : s \in SortedByUpdatedDesc(journals) }

\* getJournalById failing when no row matches.
getJournalById_ThrowsNotFound(id) ==
  Guarded(
    IF ~Bindable(id) THEN Res(journals, Throw("BindError"))
    ELSE IF HasRow(id) THEN Res(journals, Return(RowOf(id)))
    ELSE Res(journals, Throw("NotFound")))

\* stmt.get: the row, or undefined when there is none.
getJournalById(id) ==
  Guarded(
    IF ~Bindable(id) THEN Res(journals, Throw("BindError"))
    ELSE Res(journals, Return(IF HasRow(id) THEN RowOf(id) ELSE Undefined)))

\* updateJournal as an upsert: a missing row is inserted.
updateJournal_Upsert(journal) ==
  Guarded(
    IF ~BindsAll(journal) THEN Res(journals, Throw("BindError"))
    ELSE IF journal.title = Null THEN Res(journals, Throw("ConstraintViolation"))
    ELSE Res({ r \in journals : r.id # journal.id }
               \cup {Row(journal.id, journal.title, journal.content,
                         IF HasRow(journal.id) THEN RowOf(journal.id).created_at ELSE now,
                         now)},
             Return(RunInfo(1))))

\* updateJournal without `updated_at = CURRENT_TIMESTAMP` in its SET list.
updateJournal_KeepsUpdatedAt(journal) ==
  Guarded(
    IF ~BindsAll(journal) THEN Res(journals, Throw("BindError"))
    ELSE IF ~HasRow(journal.id) THEN Res(journals, Return(RunInfo(0)))
    ELSE IF journal.title = Null THEN Res(journals, Throw("ConstraintViolation"))
    ELSE Res({ IF r.id = journal.id
               THEN [r EXCEPT !.title = journal.title, !.content = journal.content]
               ELSE r : r \in journals },
             Return(RunInfo(1))))

\* UPDATE journals SET title, content, updated_at = CURRENT_TIMESTAMP WHERE id
updateJournal(journal) ==
  Guarded(
    IF ~BindsAll(journal) THEN Res(journals, Throw("BindError"))
    ELSE IF ~HasRow(journal.id) THEN Res(journals, Return(RunInfo(0)))
    ELSE IF journal.title = Null THEN Res(journals, Throw("ConstraintViolation"))
    ELSE Res({ IF r.id = journal.id
               THEN [r EXCEPT !.title = journal.title,
                              !.content = journal.content,
                              !.updated_at = now]
               ELSE r : r \in journals },
             Return(RunInfo(1))))

\* deleteJournal without its WHERE clause: every row goes.
deleteJournal_NoWhere(id) ==
  Guarded(
    IF ~Bindable(id) THEN Res(journals, Throw("BindError"))
    ELSE Res({}, Return(RunInfo(Cardinality(journals)))))

\* DELETE FROM journals WHERE id
deleteJournal(id) ==
  Guarded(
    IF ~Bindable(id) THEN Res(journals, Throw("BindError"))
    ELSE Res({ r \in journals : r.id # id },
             Return(RunInfo(Cardinality({ r \in journals : r.id = id })))))

\* autoSaveJournal as a plain INSERT, without OR REPLACE.
autoSaveJournal_InsertOnly(journal) ==
  Guarded(
    IF ~BindsAll(journal) THEN Res(journals, Throw("BindError"))
    ELSE IF journal.title = Null \/ HasRow(journal.id)
         THEN Res(journals, Throw("ConstraintViolation"))
    ELSE Res(journals \cup {Row(journal.id, journal.title, journal.content, now, now)},
             Return(RunInfo(1))))

\* INSERT OR REPLACE INTO journals (id, title, content, updated_at): a row
\* with the same id is deleted and the new row inserted, the columns the
\* statement does not name (created_at, is_published) taking their defaults.
autoSaveJournal(journal) ==
  Guarded(
    IF ~BindsAll(journal) THEN Res(journals, Throw("BindError"))
    ELSE IF journal.title = Null THEN Res(journals, Throw("ConstraintViolation"))
    ELSE Res({ r \in journals : r.id # journal.id }
               \cup {Row(journal.id, journal.title, journal.content, now, now)},
             Return(RunInfo(1))))

---------------------------------------------------------------------------
(* The Request Gateway: the ipcMain handlers *)

\* The ids uuidv4() may return.
Uuids == Ids

\* uuidv4() is called once the record has passed validation.
Minted(journal) ==
  IF Falsy(journal) \/ Falsy(journal.title) THEN {Undefined} ELSE Uuids

\* { bullets: [], images: [], videos: [] }
DefaultContent == ContentOf(<<>>, <<>>, <<>>)

\* Reading: a truthy string content is parsed, the default structure taking
\* its place when the parse throws.
parseContent(journal) ==
  IF ~Falsy(journal.content) /\ IsString(journal.content)
  THEN LET p == JSON_parse(journal.content.v) IN
       [journal EXCEPT !.content = IF p.ok THEN p.val ELSE DefaultContent]
  ELSE journal

\* Writing: a truthy object content is stringified.
stringifyContent(journal) ==
  IF ~Falsy(journal.content) /\ IsObject(journal.content)
  THEN [journal EXCEPT !.content = Str(JSON_stringify(journal.content))]
  ELSE journal

get_journal(id) ==
  IF Falsy(id) THEN Res(journals, Throw("ValidationError"))
  ELSE LET r == getJournalById(id) IN
       IF r.out.kind = "throw" \/ Falsy(r.out.value) THEN r
       ELSE Res(r.journals, Return(parseContent(r.out.value)))

get_all_journals ==
  { IF r.out.kind = "throw" THEN r
    ELSE Res(r.journals,
             Return([i \in 1..Len(r.out.value) |-> parseContent(r.out.value[i])]))
    : r \in getAllJournals }

\* create-journal as { id: uuidv4(), ...journal }: an id the caller
\* supplies wins over the minted one.
create_journal_KeepsCallerId(journal, uuid) ==
  IF Falsy(journal) \/ Falsy(journal.title)
  THEN Res(journals, Throw("ValidationError"))
  ELSE createJournal(stringifyContent(
         IF journal.id = Undefined THEN [journal EXCEPT !.id = uuid] ELSE journal))

create_journal(journal, uuid) ==
  IF Falsy(journal) \/ Falsy(journal.title)
  THEN Res(journals, Throw("ValidationError"))
  ELSE createJournal(stringifyContent([journal EXCEPT !.id = uuid]))

update_journal(journal) ==
  IF Falsy(journal) \/ Falsy(journal.id)
  THEN Res(journals, Throw("ValidationError"))
  ELSE updateJournal(stringifyContent(journal))

\* delete-journal without its `if (!id)` test.
delete_journal_Unchecked(id) == deleteJournal(id)

delete_journal(id) ==
  IF Falsy(id) THEN Res(journals, Throw("ValidationError"))
  ELSE deleteJournal(id)

auto_save_journal(journal) ==
  IF Falsy(journal) \/ Falsy(journal.id)
  THEN Res(journals, Throw("ValidationError"))
  ELSE autoSaveJournal(stringifyContent(journal))

---------------------------------------------------------------------------
(* The state machine *)

NoCall == Call("none", Undefined, Undefined, Return(Undefined))

\* The requests that can be in flight at once.
MaxInFlight == 2
Slots == 1..MaxInFlight

\* No request in the slot.
Idle == [pc |-> "idle", op |-> "none", req |-> Undefined, arg |-> Undefined,
         res |-> Return(Undefined)]

Init ==
  /\ db = "null"
  /\ userDataDir \in BOOLEAN
  /\ dbFile \in BOOLEAN
  /\ dbFile => userDataDir
  /\ journalsTable = dbFile
  /\ journals = {}
  /\ now = 0
  /\ dbInitialized = FALSE
  /\ last = NoCall
  /\ frames = [s \in Slots |-> Idle]

\* A second passes.
Tick ==
  /\ now < MaxTime
  /\ now' = now + 1
  /\ UNCHANGED <<db, userDataDir, dbFile, journalsTable, journals, dbInitialized, last,
               frames>>

\* createWindow's call of journalOperations.initialize()
Initialize ==
  \E env \in InitOutcomes :
    /\ CanFailAt(env)
    /\ LET r == initialize(env) IN
       /\ db' = r.db
       /\ userDataDir' = r.userDataDir
       /\ dbFile' = r.dbFile
       /\ journalsTable' = r.journalsTable
       /\ dbInitialized' = (dbInitialized \/ r.ret)
       /\ last' = Call("initialize", Undefined, Undefined, Return(r.ret))
    /\ UNCHANGED <<journals, now, frames>>

(* Calls made straight on the Store: the table the call leaves and the
   record of the call *)

CallCreateJournal(j) ==
  LET r == createJournal(j) IN
  /\ journals' = r.journals
  /\ last' = Call("createJournal", j.id, Wrote(j, r.out), r.out)
  /\ UNCHANGED <<db, userDataDir, dbFile, journalsTable, now, dbInitialized, frames>>

CallGetAllJournals ==
  \E r \in getAllJournals :
    /\ journals' = r.journals
    /\ last' = Call("getAllJournals", Undefined, Undefined, r.out)
    /\ UNCHANGED <<db, userDataDir, dbFile, journalsTable, now, dbInitialized, frames>>

CallGetJournalById(id) ==
  LET r == getJournalById(id) IN
  /\ journals' = r.journals
  /\ last' = Call("getJournalById", id, Undefined, r.out)
  /\ UNCHANGED <<db, userDataDir, dbFile, journalsTable, now, dbInitialized, frames>>

CallUpdateJournal(j) ==
  LET r == updateJournal(j) IN
  /\ journals' = r.journals
  /\ last' = Call("updateJournal", j.id, Wrote(j, r.out), r.out)
  /\ UNCHANGED <<db, userDataDir, dbFile, journalsTable, now, dbInitialized, frames>>

CallDeleteJournal(id) ==
  LET r == deleteJournal(id) IN
  /\ journals' = r.journals
  /\ last' = Call("deleteJournal", id, Undefined, r.out)
  /\ UNCHANGED <<db, userDataDir, dbFile, journalsTable, now, dbInitialized, frames>>

CallAutoSaveJournal(j) ==
  LET r == autoSaveJournal(j) IN
  /\ journals' = r.journals
  /\ last' = Call("autoSaveJournal", j.id, Wrote(j, r.out), r.out)
  /\ UNCHANGED <<db, userDataDir, dbFile, journalsTable, now, dbInitialized, frames>>

(* Requests made through the Gateway *)

\* The id a record names; none when the record is missing.
IdOf(j) == IF Falsy(j) THEN Undefined ELSE j.id

ReqGetJournal(id) ==
  LET r == get_journal(id) IN
  /\ journals' = r.journals
  /\ last' = Call("get-journal", id, Undefined, r.out)
  /\ UNCHANGED <<db, userDataDir, dbFile, journalsTable, now, dbInitialized, frames>>

ReqGetAllJournals ==
  \E r \in get_all_journals :
    /\ journals' = r.journals
    /\ last' = Call("get-all-journals", Undefined, Undefined, r.out)
    /\ UNCHANGED <<db, userDataDir, dbFile, journalsTable, now, dbInitialized, frames>>

\* The record of a create-journal request keeps the id uuidv4() returned.
ReqCreateJournal(j, uuid) ==
  LET r == create_journal(j, uuid) IN
  /\ journals' = r.journals
  /\ last' = Call("create-journal", uuid, Wrote(j, r.out), r.out)
  /\ UNCHANGED <<db, userDataDir, dbFile, journalsTable, now, dbInitialized, frames>>

ReqUpdateJournal(j) ==
  LET r == update_journal(j) IN
  /\ journals' = r.journals
  /\ last' = Call("update-journal", IdOf(j), Wrote(j, r.out), r.out)
  /\ UNCHANGED <<db, userDataDir, dbFile, journalsTable, now, dbInitialized, frames>>

ReqDeleteJournal(id) ==
  LET r == delete_journal(id) IN
  /\ journals' = r.journals
  /\ last' = Call("delete-journal", id, Undefined, r.out)
  /\ UNCHANGED <<db, userDataDir, dbFile, journalsTable, now, dbInitialized, frames>>

ReqAutoSaveJournal(j) ==
  LET r == auto_save_journal(j) IN
  /\ journals' = r.journals
  /\ last' = Call("auto-save-journal", IdOf(j), Wrote(j, r.out), r.out)
  /\ UNCHANGED <<db, userDataDir, dbFile, journalsTable, now, dbInitialized, frames>>

StoreNext ==
  \/ Tick
  \/ Initialize
  \/ \E j \in StoreRecords : CallCreateJournal(j)
  \/ CallGetAllJournals
  \/ \E id \in Ids : CallGetJournalById(id)
  \/ \E j \in StoreRecords : CallUpdateJournal(j)
  \/ \E id \in Ids : CallDeleteJournal(id)
  \/ \E j \in StoreRecords : CallAutoSaveJournal(j)

GatewayNext ==
  \/ Tick
  \/ Initialize
  \/ \E id \in Ids \cup {Undefined} : ReqGetJournal(id)
  \/ ReqGetAllJournals
  \/ \E j \in CreateRequests : \E uuid \in Minted(j) : ReqCreateJournal(j, uuid)
  \/ \E j \in WriteRequests : ReqUpdateJournal(j)
  \/ \E id \in Ids \cup {Undefined} : ReqDeleteJournal(id)
  \/ \E j \in WriteRequests : ReqAutoSaveJournal(j)

\* The Store driven directly.
Spec == Init /\ [][StoreNext]_vars

\* The Store driven through the Gateway.
GatewaySpec == Init /\ [][GatewayNext]_vars

---------------------------------------------------------------------------
(* The main process's event loop: requests issued while others are in      *)
(* flight, each handler run statement by statement                         *)

ReadOps == {"get-journal", "get-all-journals"}
IdOps == {"get-journal", "delete-journal"}
WriteOps == {"create-journal", "update-journal", "auto-save-journal"}

\* The requests the renderer issues.
LoopRequests ==
  LET c == CHOOSE x \in Structures : TRUE IN
  { [op |-> "get-journal", req |-> Str(<<"x">>)],
    [op |-> "get-all-journals", req |-> Undefined],
    [op |-> "create-journal", req |-> Journal(Undefined, Str(<<"t">>), c)],
    [op |-> "update-journal", req |-> Journal(Str(<<"x">>), Str(<<"t">>), Str(<<"a">>))],
    [op |-> "update-journal", req |-> Undefined],
    [op |-> "delete-journal", req |-> Str(<<"x">>)],
    [op |-> "auto-save-journal", req |-> Journal(Str(<<"x">>), Str(<<>>), c)] }

\* A handler with an `await` in front of its Store call: it leaves the call
\* stack there.
OnStack_AwaitsStore(f) == f.pc \in {"validate", "transform", "parse"}

\* The handler has been called and has not returned.  The handlers are async
\* functions without an await, so from their first statement to their return
\* or throw they stay on the call stack.
OnStack(f) == f.pc \in {"validate", "transform", "store", "parse"}

\* The `if (!...) throw` test a handler starts with.
Invalid(op, req) ==
  CASE op \in IdOps -> Falsy(req)
    [] op = "create-journal" -> Falsy(req) \/ Falsy(req.title)
    [] op \in {"update-journal", "auto-save-journal"} -> Falsy(req) \/ Falsy(req.id)
    [] op = "get-all-journals" -> FALSE

\* The journalOperations call a handler makes.
StoreResults(op, arg) ==
  CASE op = "get-journal" -> {getJournalById(arg)}
    [] op = "get-all-journals" -> getAllJournals
    [] op = "create-journal" -> {createJournal(arg)}
    [] op = "update-journal" -> {updateJournal(arg)}
    [] op = "delete-journal" -> {deleteJournal(arg)}
    [] op = "auto-save-journal" -> {autoSaveJournal(arg)}

\* The id the record of a call keeps.
RecordedId(f) ==
  CASE f.op \in IdOps -> f.req
    [] f.op = "get-all-journals" -> Undefined
    [] f.op = "create-journal" -> IF f.pc = "store" THEN f.arg.id ELSE Undefined
    [] f.op \in {"update-journal", "auto-save-journal"} -> IdOf(f.req)

\* ipcRenderer.invoke: the request message is on its way.
Issue(s, q) ==
  /\ frames[s].pc = "idle"
  /\ frames' = [frames EXCEPT ![s] = [pc |-> "queued", op |-> q.op, req |-> q.req,
                                      arg |-> q.req, res |-> Return(Undefined)]]
  /\ UNCHANGED <<db, userDataDir, dbFile, journalsTable, journals, now, dbInitialized,
                 last>>

\* The event loop, its call stack empty, takes a message and calls the handler.
Start(s) ==
  /\ frames[s].pc = "queued"
  /\ \A t \in Slots : ~OnStack(frames[t])
  /\ frames' = [frames EXCEPT ![s].pc =
                  IF frames[s].op = "get-all-journals" THEN "store" ELSE "validate"]
  /\ UNCHANGED <<db, userDataDir, dbFile, journalsTable, journals, now, dbInitialized,
                 last>>

\* The handler tests its required field and throws when it is missing.
Validate(s) ==
  LET f == frames[s] IN
  /\ f.pc = "validate"
  /\ IF Invalid(f.op, f.req)
     THEN /\ frames' = [frames EXCEPT ![s] = Idle]
          /\ last' = Call(f.op, RecordedId(f), Undefined, Throw("ValidationError"))
     ELSE /\ frames' = [frames EXCEPT ![s].pc =
                          IF f.op \in IdOps THEN "store" ELSE "transform"]
          /\ UNCHANGED last
  /\ UNCHANGED <<db, userDataDir, dbFile, journalsTable, journals, now, dbInitialized>>

\* The handler copies the record, create-journal with the minted id, and
\* stringifies its content.
Transform(s) ==
  LET f == frames[s] IN
  /\ f.pc = "transform"
  /\ \E uuid \in (IF f.op = "create-journal" THEN Uuids ELSE {Undefined}) :
       frames' = [frames EXCEPT
                    ![s].pc = "store",
                    ![s].arg = stringifyContent(
                                 IF f.op = "create-journal"
                                 THEN [f.req EXCEPT !.id = uuid] ELSE f.req)]
  /\ UNCHANGED <<db, userDataDir, dbFile, journalsTable, journals, now, dbInitialized,
                 last>>

\* The handler calls journalOperations; a write handler returns (or
\* rethrows) what the call gave, a read handler goes on to parse.
StoreStep(s) ==
  LET f == frames[s] IN
  /\ f.pc = "store"
  /\ \E r \in StoreResults(f.op, f.arg) :
       /\ journals' = r.journals
       /\ IF f.op \in ReadOps /\ r.out.kind = "return"
          THEN /\ frames' = [frames EXCEPT ![s].pc = "parse", ![s].res = r.out]
               /\ UNCHANGED last
          ELSE /\ frames' = [frames EXCEPT ![s] = Idle]
               /\ last' = Call(f.op, RecordedId(f),
                               IF f.op \in WriteOps THEN Wrote(f.req, r.out) ELSE Undefined,
                               r.out)
  /\ UNCHANGED <<db, userDataDir, dbFile, journalsTable, now, dbInitialized>>

\* A read handler parses the content of what it got and returns.
Parse(s) ==
  LET f == frames[s]
      v == f.res.value
      out == IF f.op = "get-journal"
             THEN (IF Falsy(v) THEN f.res ELSE Return(parseContent(v)))
             ELSE Return([i \in 1..Len(v) |-> parseContent(v[i])])
  IN /\ f.pc = "parse"
     /\ frames' = [frames EXCEPT ![s] = Idle]
     /\ last' = Call(f.op, RecordedId(f), Undefined, out)
     /\ UNCHANGED <<db, userDataDir, dbFile, journalsTable, journals, now, dbInitialized>>

\* createWindow is run by the event loop too ('ready', 'activate').
LoopInitialize ==
  /\ \A t \in Slots : ~OnStack(frames[t])
  /\ Initialize

LoopNext ==
  \/ Tick
  \/ LoopInitialize
  \/ \E s \in Slots : \E q \in LoopRequests : Issue(s, q)
  \/ \E s \in Slots : Start(s)
  \/ \E s \in Slots : Validate(s)
  \/ \E s \in Slots : Transform(s)
  \/ \E s \in Slots : StoreStep(s)
  \/ \E s \in Slots : Parse(s)

\* Requests issued concurrently, handled by the event loop.
LoopSpec == Init /\ [][LoopNext]_vars

---------------------------------------------------------------------------
(* Claims *)

\* The connection is open and the journals table exists: what a run of
\* initializeDatabase that returns true establishes.
Ready == db = "open" /\ journalsTable

\* A step that is a call of one of the six Store operations.
StoreCall ==
  \/ \E j \in StoreRecords : CallCreateJournal(j)
  \/ CallGetAllJournals
  \/ \E id \in Ids : CallGetJournalById(id)
  \/ \E j \in StoreRecords : CallUpdateJournal(j)
  \/ \E id \in Ids : CallDeleteJournal(id)
  \/ \E j \in StoreRecords : CallAutoSaveJournal(j)

\* C1: as long as no call of initialize() has returned true, whatever
\* initialize() calls have failed at whatever step, every call of a Store
\* operation throws NotInitialized and leaves the journals table as it was.
C1_NotInitializedUntilSuccess ==
  [][ (~dbInitialized /\ StoreCall)
        => (last'.out = Throw("NotInitialized") /\ journals' = journals) ]_vars

\* C2: a row keeps its created_at for as long as its id is in the table: no
\* step, updateJournal and autoSaveJournal on an existing row included,
\* changes the created_at of a row whose id stays.
C2_CreatedAtNeverChanges ==
  [][ \A r \in journals : \A r2 \in journals' :
        r2.id = r.id => r2.created_at = r.created_at ]_vars

\* What get-journal and get-all-journals give for the row with this id is
\* a row whose content is c.
ReadsBack(id, c) ==
  /\ LET g == get_journal(id).out IN
     g.kind = "return" /\ g.value.k = "row" /\ g.value.content = c
  /\ \A r \in get_all_journals :
       /\ r.out.kind = "return"
       /\ \E i \in 1..Len(r.out.value) :
            r.out.value[i].id = id /\ r.out.value[i].content = c

\* Every row whose stored content is text JSON.parse rejects reads back, by
\* both read requests, with the default structure as its content.
MalformedReadsDefault ==
  \A r \in journals :
    (r.content.k = "string" /\ ~JSON_parse(r.content.v).ok)
      => ReadsBack(r.id, DefaultContent)

\* C3: a structure written by a create-journal or update-journal request
\* reads back, by get-journal and in get-all-journals, as an equal structure
\* for as long as no later call is made; and a row whose stored content text
\* does not parse reads back with {bullets: [], images: [], videos: []}.
C3_RoundTripAndDefault ==
  /\ ( /\ last.op \in {"create-journal", "update-journal"}
       /\ last.wrote \in Structures )
       => ReadsBack(last.id, last.wrote)
  /\ MalformedReadsDefault

\* C4: on a store that is ready, createJournal of a record {id, title,
\* content} whose id has no row and whose title is not null returns, and
\* getJournalById(id) right after it gives the one row with that id: the
\* record's id, title and content, created_at and updated_at the time of the
\* insertion, is_published 0; the rows there before are all still there,
\* unchanged, and nothing else was added.
C4_CreateThenGet ==
  [][ \A j \in StoreRecords :
        ( /\ last'.op = "createJournal"
          /\ Ready
          /\ ~HasRow(j.id)
          /\ j.title # Null
          /\ j.content # Undefined
          /\ CallCreateJournal(j) )
          => LET row == Row(j.id, j.title, j.content, now, now) IN
             /\ last'.out.kind = "return"
             /\ (getJournalById(j.id).out)' = Return(row)
             /\ row.is_published = 0
             /\ { r \in journals' : r.id = j.id } = {row}
             /\ journals' = journals \cup {row} ]_vars

\* A created row is read back beside an older row, after the clock has moved.
C4_Witness ==
  /\ last.op = "createJournal"
  /\ last.out = Return(RunInfo(1))
  /\ now > 0
  /\ \E r \in journals : r.id = last.id /\ r.created_at = now /\ r.content # Null
  /\ \E r \in journals : r.id # last.id /\ r.created_at < now

\* C5: what a create-journal request returns is a row that carries the id
\* minted for the new journal.
C5_CreateReturnsRowWithId ==
  (last.op = "create-journal" /\ last.out.kind = "return")
    => (last.out.value.k = "row" /\ last.out.value.id = last.id)

\* C6: on a store that is ready, for an id that has no row, getJournalById
\* returns undefined, updateJournal of a record {id, title, content} with
\* that id and deleteJournal return a result with changes = 0; none of them
\* throws, and the table is the same before and after.
C6_AbsentIdIsNoOp ==
  [][ (Ready /\ last'.op \in {"getJournalById", "updateJournal", "deleteJournal"}) =>
        /\ \A id \in Ids :
             (~HasRow(id) /\ CallGetJournalById(id))
               => (last'.out = Return(Undefined) /\ journals' = journals)
        /\ \A j \in StoreRecords :
             (~HasRow(j.id) /\ j.content # Undefined /\ CallUpdateJournal(j))
               => (last'.out = Return(RunInfo(0)) /\ journals' = journals)
        /\ \A id \in Ids :
             (~HasRow(id) /\ CallDeleteJournal(id))
               => (last'.out = Return(RunInfo(0)) /\ journals' = journals) ]_vars

\* An update named an id that has no row, in a table that has another row.
C6_Witness ==
  /\ last.op = "updateJournal"
  /\ last.out = Return(RunInfo(0))
  /\ ~HasRow(last.id)
  /\ journals # {}

\* C7: an update with an id and a title but no content property, naming an
\* id that has no row, returns a result with changes = 0 and leaves the
\* table as it is, called on the Store and requested through the Gateway.
C7_UpdateWithoutContent ==
  Ready =>
    \A j \in StoreRecords :
      (j.content = Undefined /\ j.title # Null /\ ~HasRow(j.id))
        => /\ updateJournal(j) = Res(journals, Return(RunInfo(0)))
           /\ update_journal(j) = Res(journals, Return(RunInfo(0)))

\* C8: on a store that is ready, autoSaveJournal of a record {id, title,
\* content} with a title returns and leaves exactly one row with that id,
\* holding the record's title and content and the time of the call as its
\* updated_at, whether or not the id had a row; the rows with other ids stay
\* as they were, so a call that finds the row there (a second call with the
\* same record among them) leaves the number of rows as it was.
C8_AutoSaveUpsert ==
  [][ \A j \in StoreRecords :
        ( /\ last'.op = "autoSaveJournal"
          /\ Ready
          /\ j.title # Null
          /\ j.content # Undefined
          /\ CallAutoSaveJournal(j) )
          => /\ last'.out.kind = "return"
             /\ \E r \in journals' :
                  /\ { x \in journals' : x.id = j.id } = {r}
                  /\ r.title = j.title
                  /\ r.content = j.content
                  /\ r.updated_at = now
             /\ { x \in journals' : x.id # j.id } = { x \in journals : x.id # j.id }
             /\ HasRow(j.id) => Cardinality(journals') = Cardinality(journals)
             /\ ~HasRow(j.id) => Cardinality(journals') = Cardinality(journals) + 1 ]_vars

\* An auto-save has written its row, at a later time than another row's.
C8_Witness ==
  /\ last.op = "autoSaveJournal"
  /\ last.out = Return(RunInfo(1))
  /\ \E r \in journals : r.id = last.id /\ r.updated_at = now /\ r.content = last.wrote
  /\ \E r \in journals : r.id # last.id /\ r.updated_at < now

\* C9: on a store that is ready, getAllJournals returns, and what it returns
\* lists every row of the table exactly once, updated_at never increasing
\* from one element to the next; for the empty table it is the empty list.
C9_GetAllSorted ==
  (Ready /\ last.op = "getAllJournals")
    => /\ last.out.kind = "return"
       /\ LET s == last.out.value IN
          /\ Len(s) = Cardinality(journals)
          /\ { s[i] : i \in 1..Len(s) } = journals
          /\ \A i, j \in 1..Len(s) : i < j => s[i].updated_at >= s[j].updated_at
          /\ journals = {} => s = <<>>

\* getAllJournals has listed two rows of different updated_at.
C9_Witness ==
  /\ last.op = "getAllJournals"
  /\ last.out.kind = "return"
  /\ Len(last.out.value) = 2
  /\ last.out.value[1].updated_at > last.out.value[2].updated_at

WritingOps == {"createJournal", "updateJournal", "autoSaveJournal"}

\* C10: a createJournal, updateJournal or autoSaveJournal call that writes a
\* row sets its updated_at to the time of the call; a row appears or changes
\* only in such a call, which names its id; and no row's updated_at is
\* earlier than its created_at.
C10_UpdatedAtIsLastWrite ==
  [][ /\ \A j \in StoreRecords :
           ( /\ last'.op \in WritingOps
             /\ last'.out = Return(RunInfo(1))
             /\ CallCreateJournal(j) \/ CallUpdateJournal(j) \/ CallAutoSaveJournal(j) )
             => \E r \in journals' : r.id = j.id /\ r.updated_at = now
      /\ \A r \in journals' \ journals :
           /\ r.updated_at = now
           /\ last'.op \in WritingOps
           /\ last'.id = r.id
           /\ last'.out = Return(RunInfo(1))
      /\ \A r \in journals' : r.updated_at >= r.created_at ]_vars

\* An update has refreshed the updated_at of a row created earlier.
C10_Witness ==
  /\ last.op = "updateJournal"
  /\ last.out = Return(RunInfo(1))
  /\ \E r \in journals : r.id = last.id /\ r.updated_at = now /\ r.created_at < now

\* A request that is turned away: it throws the validation error, and not
\* the error a Store operation would throw, and the table stays as it was.
Rejected == last'.out = Throw("ValidationError") /\ journals' = journals

\* The record is missing, or its id is.
LacksId(j) == j \in {Undefined, Null} \/ j.id \in {Undefined, Null, Str(<<>>)}

\* The record is missing, or its title is missing or empty.
LacksTitle(j) == j \in {Undefined, Null} \/ j.title \in {Undefined, Null, Str(<<>>)}

\* C11: a get-journal or delete-journal request without an id, an
\* update-journal or auto-save-journal request without a record or without
\* its id, and a create-journal request without a record or with a missing
\* or empty title throw the validation error, whatever the state of the
\* Store (no connection, no table, ready), and leave the table unchanged.
C11_MissingFieldRejected ==
  [][ last'.id = Undefined =>
      /\ (last'.op = "get-journal" /\ ReqGetJournal(Undefined)) => Rejected
      /\ (last'.op = "delete-journal" /\ ReqDeleteJournal(Undefined)) => Rejected
      /\ last'.op = "update-journal" =>
           \A j \in WriteRequests : (LacksId(j) /\ ReqUpdateJournal(j)) => Rejected
      /\ last'.op = "auto-save-journal" =>
           \A j \in WriteRequests : (LacksId(j) /\ ReqAutoSaveJournal(j)) => Rejected
      /\ last'.op = "create-journal" =>
           \A j \in CreateRequests :
             (LacksTitle(j) /\ \E uuid \in Minted(j) : ReqCreateJournal(j, uuid))
               => Rejected ]_vars

\* A request was turned away while the table had a row.
C11_Witness ==
  /\ last.op \in {"delete-journal", "auto-save-journal", "create-journal"}
  /\ last.out = Throw("ValidationError")
  /\ last.id = Undefined
  /\ journals # {}

\* C12 as stated: on a store that is ready, every get-journal and
\* get-all-journals request returns, whatever it is given, a missing id
\* included; an id that has no row gives an absent result and an empty
\* table the empty list.
C12_ReadsNeverThrow ==
  (Ready /\ last.op \in {"get-journal", "get-all-journals"})
    => /\ last.out.kind = "return"
       /\ (last.op = "get-journal" /\ ~HasRow(last.id)) => last.out.value = Undefined
       /\ (last.op = "get-all-journals" /\ journals = {}) => last.out.value = <<>>

\* C12, amended: on a store that is ready, get-all-journals always returns
\* (the empty list for the empty table), and get-journal with an id returns,
\* the result being absent when the id has no row; get-journal without an id
\* throws the validation error.
C12_ReadsThrowOnlyOnMissingId ==
  Ready =>
    /\ last.op = "get-all-journals" =>
         /\ last.out.kind = "return"
         /\ Len(last.out.value) = Cardinality(journals)
         /\ journals = {} => last.out.value = <<>>
    /\ (last.op = "get-journal" /\ last.id \in Ids) =>
         /\ last.out.kind = "return"
         /\ HasRow(last.id) => last.out.value.k = "row" /\ last.out.value.id = last.id
         /\ ~HasRow(last.id) => last.out.value = Undefined
    /\ (last.op = "get-journal" /\ last.id \notin Ids) =>
         last.out = Throw("ValidationError")

\* get-journal named an id that has no row, in a table that has another row.
C12_Witness ==
  /\ Ready
  /\ last.op = "get-journal"
  /\ last.id \in Ids
  /\ ~HasRow(last.id)
  /\ journals # {}
  /\ last.out = Return(Undefined)

\* C13: no two rows of the table have the same id; and a createJournal call
\* whose record names an id that has a row, or has a null title, throws and
\* leaves the table, the row with that id included, as it was.  On a store
\* that is ready, with a record {id, title, content}, what it throws is the
\* constraint violation.
C13_OneRowPerId ==
  [][ /\ \A r1, r2 \in journals' : r1.id = r2.id => r1 = r2
      /\ last'.op = "createJournal" =>
           \A j \in StoreRecords :
             ((HasRow(j.id) \/ j.title = Null) /\ CallCreateJournal(j))
               => /\ last'.out.kind = "throw"
                  /\ journals' = journals
                  /\ (Ready /\ j.content # Undefined)
                       => last'.out = Throw("ConstraintViolation") ]_vars

\* createJournal named an id that has a row and was refused; the table has
\* two rows.
C13_Witness ==
  /\ last.op = "createJournal"
  /\ last.out = Throw("ConstraintViolation")
  /\ HasRow(last.id)
  /\ Cardinality(journals) = 2

\* C14: whatever requests have been made through the Gateway, every row of
\* the journals table has a title that is text and is not empty.
C14_TitlesNonEmpty ==
  \A r \in journals : IsString(r.title) /\ r.title.v # <<>>

\* C15: on a store that is ready, deleteJournal(id) returns and leaves no
\* row with that id and every other row as it was; while an id has no row
\* getJournalById(id) returns undefined; and an id that has no row gets one
\* only in a createJournal or autoSaveJournal call that names it and
\* succeeds.  So from a deleteJournal(id) on, getJournalById(id) returns
\* undefined in every state up to such a call.
C15_DeletedStaysAbsent ==
  [][ Ready =>
      /\ last'.op = "deleteJournal" =>
           \A id \in Ids :
             CallDeleteJournal(id)
               => /\ last'.out.kind = "return"
                  /\ ~\E r \in journals' : r.id = id
                  /\ journals' = { r \in journals : r.id # id }
      /\ \A id \in Ids :
           ~HasRow(id) =>
             /\ getJournalById(id).out = Return(Undefined)
             /\ (\E r \in journals' : r.id = id)
                  => /\ last'.op \in {"createJournal", "autoSaveJournal"}
                     /\ last'.id = id
                     /\ last'.out = Return(RunInfo(1))
             /\ (~\E r \in journals' : r.id = id)
                  => (getJournalById(id).out)' = Return(Undefined) ]_vars

\* deleteJournal has removed a row and left another.
C15_Witness ==
  /\ last.op = "deleteJournal"
  /\ last.out = Return(RunInfo(1))
  /\ ~HasRow(last.id)
  /\ journals # {}

\* C16: a call of initialize() returns, true or false, and never throws;
\* and once some call has returned true, a call returns true and leaves the
\* connection handle, the database file, the table and every row as they
\* were.
C16_InitializeIdempotent ==
  [][ Initialize =>
        /\ last'.out.kind = "return"
        /\ last'.out.value \in BOOLEAN
        /\ dbInitialized =>
             /\ last'.out = Return(TRUE)
             /\ db' = db
             /\ journals' = journals
             /\ UNCHANGED <<userDataDir, dbFile, journalsTable>> ]_vars

\* initialize() was called, and returned true, on a table that has rows.
C16_Witness ==
  /\ last.op = "initialize"
  /\ last.out = Return(TRUE)
  /\ dbInitialized
  /\ journals # {}

\* C17: whenever a call of initialize() has returned true, the first call or
\* a later one, one after a call that returned false included, the
\* connection is open and the journals table exists.
C17_SuccessMeansReady ==
  (last.op = "initialize" /\ last.out = Return(TRUE)) => Ready

\* C18: a create-journal request that returns has stored exactly one new
\* row: its id is the one uuidv4() gave, whatever id the caller's record
\* carried, and no row had that id; every row there before is still there,
\* unchanged.
C18_CreateMintsFreshId ==
  [][ (last'.op = "create-journal" /\ last'.out.kind = "return") =>
        \A j \in CreateRequests :
          (last'.id \in Minted(j) /\ ReqCreateJournal(j, last'.id))
            => LET uuid == last'.id
                   row == Row(uuid, j.title, stringifyContent(j).content, now, now)
               IN /\ uuid \in Uuids
                  /\ ~HasRow(uuid)
                  /\ journals' = journals \cup {row}
                  /\ Cardinality(journals') = Cardinality(journals) + 1
                  /\ \A r \in journals : r \in journals' /\ r.id # uuid ]_vars

\* A create-journal request has added a row to a table that had one.
C18_Witness ==
  /\ last.op = "create-journal"
  /\ last.out = Return(RunInfo(1))
  /\ Cardinality(journals) = 2
  /\ \E r \in journals : r.id = last.id /\ r.created_at = now

\* The handler of the request in the slot has been called and has not
\* returned or thrown.
Started(f) == f.pc \notin {"idle", "queued"}

\* What the whole handler gives when it runs alone, as one step, on the
\* table as it stands.
HandlerResults(f) ==
  CASE f.op = "get-journal" -> {get_journal(f.req)}
    [] f.op = "get-all-journals" -> get_all_journals
    [] f.op = "create-journal" -> {create_journal(f.req, IdOf(f.arg))}
    [] f.op = "update-journal" -> {update_journal(f.req)}
    [] f.op = "delete-journal" -> {delete_journal(f.req)}
    [] f.op = "auto-save-journal" -> {auto_save_journal(f.req)}

\* C19: with requests issued while others are in flight, at most one
\* handler is between its first statement and its return at any time; the
\* table changes only in a handler's Store call; and a handler that returns
\* or throws leaves the table, and gives the outcome, that the whole handler
\* run as one step on the table before that step gives.  So the table is
\* always the one the handlers that have run give when run one at a time, in
\* the order of their completion.
C19_HandlersNeverOverlap ==
  [][ /\ Cardinality({ s \in Slots : Started(frames'[s]) }) <= 1
      /\ journals' # journals => \E s \in Slots : StoreStep(s)
      /\ \A s \in Slots :
           (Started(frames[s]) /\ frames'[s] = Idle)
             => \E h \in HandlerResults(frames[s]) :
                  h.journals = journals' /\ h.out = last'.out ]_vars

\* A handler is at its Store call while another request waits, and an
\* earlier request has written a row.
C19_Witness ==
  \E s, t \in Slots :
    /\ frames[s].pc = "store"
    /\ frames[s].op \in WriteOps
    /\ frames[t].pc = "queued"
    /\ frames[t].op \in WriteOps
    /\ journals # {}

====
